---- MODULE Spec2Model ----
(***************************************************************************)
(* Model of the media-engine job pipeline: JobManager (app/jobs.py), the   *)
(* executor thread that runs TranscodeEngine._process_sync                 *)
(* (app/transcode/engine.py) and CallbackDispatcher (app/utils/            *)
(* callbacks.py).                                                          *)
(*                                                                         *)
(* The event loop runs one coroutine at a time, so every action below is   *)
(* the code between two suspension points (await) of one coroutine.  The   *)
(* engine runs on an executor thread and is interleaved with the loop at   *)
(* the granularity of its writes to the job record.                        *)
(*                                                                         *)
(* Record objects outlive their entry in JobManager.records: the worker    *)
(* holds them through the WorkItem, so rec[j] stays readable after a       *)
(* purge removed j from records.                                           *)
(*                                                                         *)
(* Spec and SpecQueue are the running manager; SpecStop adds stop();       *)
(* SpecSelect runs the engine's profile, codec and remux decisions on      *)
(* probed sources and requests drawn from bounded sets; SpecCaps continues *)
(* them to the choice of encoder and decoder on every capability listing;  *)
(* SpecEngine takes one job through an engine run step by step (fallback   *)
(* candidates, the move to the output location) with get_job; SpecLive is  *)
(* the manager with the clock standing still under fair scheduling.        *)
(***************************************************************************)
EXTENDS Integers, Sequences, FiniteSets, TLC

\* ---------------------------------------------------------------- bounds
NumJobs == 3        \* job ids (uuid4 values) the model may hand out
MaxSubmits == 2     \* submit_job calls in the specification with the clock
NumWorkers == 2     \* worker tasks that start() may ever create
MaxTime == 2        \* last value of the clock (minutes)
MaxStops == 1       \* stop() calls

\* ------------------------------------------------------- program settings
\* Settings are environment-configurable; the model instantiates them small.
max_queue_size == 2
callback_max_attempts == 3
job_retention_minutes == 1

\* Optional[...] fields: the value None
None == -1

JobIds == 1..NumJobs
Workers == 1..NumWorkers
Time == 0..MaxTime

\* JobStatus
Terminal == {"completed", "failed", "cancelled"}
JobStatus == {"queued", "processing"} \cup Terminal

\* info.duration as returned by the prober (None when ffprobe reports none)
Durations == {2}
\* seconds reported on the out_time_ms progress lines of the subprocess
ProgressValues == {3}
\* result of one client.post + raise_for_status
PostOutcomes == {"2xx", "non2xx", "neterr"}

\* ------------------------------------------------- probed media, requests
\* Strings whose characters the code inspects are sequences of characters;
\* NoString is the value None of an Optional[str].
NoString == <<"None">>
\* format_name values of ffprobe (probe.py 82)
Containers == {NoString,
               <<>>,
               <<"m", "o", "v", ",", "m", "p", "4">>,
               <<"M", "P", "4">>,
               <<"w", "e", "b", "m">>,
               <<"m", "p", "3">>}
\* codec_name values of the video stream (probe.py 60)
CodecNames == {NoString,
               <<>>,
               <<"h", "2", "6", "4">>,
               <<"a", "v", "c", "1">>,
               <<"H", "E", "V", "C">>,
               <<"v", "p", "9">>}
\* width and height of the video stream (probe.py 61-62)
Widths == {None, 0, 426, 1280, 1920, 3840, 4096}
Heights == {None, 240, 720, 1080, 2160}

\* MediaStreamInfo of the video stream and MediaInfo (probe.py 12-27) without
\* the fields no decision reads; info.video is <<>> for None and <<stream>>
\* for a stream
VideoStreams == [codec_name : CodecNames, width : Widths, height : Heights]
MediaInfos ==
    [container : Containers, video : {<<>>} \cup {<<v>> : v \in VideoStreams}]

\* QualityTarget and CodecPreference (models.py 19-30)
QualityTarget == {"auto", "uhd_2160p", "fhd_1080p", "hd_720p", "sd_480p"}
CodecPreference == {"auto", "h264", "h265"}
\* JobRequest (models.py 33-36)
JobRequests == [quality : QualityTarget, codec : CodecPreference]

\* names the capability listing of ffmpeg can hold (engine.py 341-360)
RkmppEncoders == {"h264_rkmpp", "hevc_rkmpp"}
RkmppDecoders == {"h264_rkmpp", "hevc_rkmpp", "vp9_rkmpp"}

\* an Optional[float] of a JobDetail: <<>> is None, <<[num, den]>> the
\* quotient num / den
NoDetail == [transcode_progress |-> <<>>, transcode_eta_seconds |-> <<>>]

\* no probe result, no request yet
NoInfo == [container |-> NoString, video |-> <<>>]
NoRequest == [quality |-> "auto", codec |-> "auto"]

VARIABLES
    now,              \* datetime.utcnow(), in minutes
    sub,              \* position of each submit_job call
    ts,               \* submit_job's local `timestamp`
    rec,              \* the JobRecord object of each job
    records,          \* keys of JobManager.records
    queue,            \* JobManager.queue (job ids of the WorkItems)
    putters,          \* asyncio.Queue._putters: submitters blocked in put()
    files,            \* files on disk: <<dir, job>>
    worker_task,      \* JobManager.worker_task (0 = None)
    maintenance_task, \* JobManager.maintenance_task
    nworkers,         \* worker tasks created so far
    wpc,              \* position of each worker task
    cur,              \* the worker's local `record` (0 = none)
    branch,           \* where _fire_callback was called from: try / except
    attempt,          \* dispatch's loop variable `attempt`
    eng,              \* position of _process_sync on the executor thread
    cancels,          \* cancel_job calls served so far, modulo 2
    dret,             \* the last dispatch call made by each worker
    disp,             \* history: dispatch sequences started per job
    term,             \* history: transitions into a terminal status per job
    cwq,              \* history: jobs cancelled while their status was queued
    enq,              \* history: job ids in the order they were enqueued
    proc,             \* history: job ids in the order they entered processing
    ran,              \* history: jobs the engine was started on
    shutdown,         \* JobManager._shutdown is set
    spc,              \* position of the stop() call
    mpc,              \* position of the maintenance task
    stops,            \* history: stop() calls that returned
    info,             \* the MediaInfo returned by the prober
    request,          \* the JobRequest: quality and codec
    sel,              \* position of _process_sync in its decisions
    profile,          \* _process_sync's local `profile`
    target_codec,     \* _process_sync's local `target_codec`
    remux,            \* the value _should_remux returned
    path,             \* the branch _process_sync took: remux, cpu or rkmpp
    cands,            \* _transcode_rkmpp: filter candidates not yet finished
    out_time,         \* the out_time of the running subprocess (<<>>: none yet)
    last_error,       \* _transcode_rkmpp's local `last_error` (a label)
    raised,           \* the error _process_sync raised (a label)
    detail,           \* the JobDetail returned by the last get_job
    ffmpeg_encoders,  \* TranscodeEngine.ffmpeg_encoders
    ffmpeg_decoders,  \* TranscodeEngine.ffmpeg_decoders
    hw_device,        \* the acceleration device exists on the host
    use_hw,           \* _select_rkmpp_codecs: first component of the result
    decoder_name,     \*   second component
    encoder_name      \*   third component

\* the variables of stop() and of the two background tasks' termination
stopVars == <<shutdown, spc, mpc, stops>>
\* the variables of the engine's decisions
selVars == <<info, request, sel, profile, target_codec, remux>>
\* the variables of one detailed engine run and of get_job
runVars == <<path, cands, out_time, last_error, raised, detail>>
\* the engine's capability cache, the host and the codecs selected from them
capVars == <<ffmpeg_encoders, ffmpeg_decoders, hw_device, use_hw, decoder_name,
             encoder_name>>

vars == <<now, sub, ts, rec, records, queue, putters, files, worker_task,
          maintenance_task, nworkers, wpc, cur, branch, attempt, eng, cancels,
          dret, disp, term, cwq, enq, proc, ran, stopVars, selVars, runVars, capVars>>

\* ---------------------------------------------------------------- records
\* A JobRecord as built by submit_job (jobs.py 147-160).  Timestamps are
\* clock values; output_path, callback_url and error are kept as "is set"
\* (the path is output_dir/<job_id>.mp4, the URL is the request's, the error
\* is str(exc)).  job_id is the index of rec; source_path, source_filename,
\* quality, codec and the two download timestamps are written once here and
\* read by no step of the job manager, so they are left out.
NewRecord(timestamp, cb) ==
    [status |-> "queued",
     created_at |-> timestamp,
     updated_at |-> timestamp,
     output_path |-> FALSE,
     callback_url |-> cb,
     error |-> FALSE,
     transcode_started_at |-> None,
     transcode_finished_at |-> None,
     media_duration_seconds |-> None,
     transcode_media_seconds |-> None]

\* placeholder for a job id no JobRecord was built for yet
NoRecord == [NewRecord(0, FALSE) EXCEPT !.status = "absent"]

NoDret == [attempts |-> 0, delivered |-> FALSE, how |-> "none"]
Outcome(r) == [status |-> r.status, error |-> r.error, output_path |-> r.output_path]

InitManager ==
    /\ now = 0
    /\ sub = [j \in JobIds |-> "none"]
    /\ ts = [j \in JobIds |-> 0]
    /\ rec = [j \in JobIds |-> NoRecord]
    /\ records = {}
    /\ queue = <<>>
    /\ putters = <<>>
    /\ files = {}
    /\ worker_task = 0
    /\ maintenance_task = FALSE
    /\ nworkers = 0
    /\ wpc = [w \in Workers |-> "none"]
    /\ cur = [w \in Workers |-> 0]
    /\ branch = [w \in Workers |-> "none"]
    /\ attempt = [w \in Workers |-> 0]
    /\ eng = [j \in JobIds |-> "none"]
    /\ cancels = 0
    /\ dret = [w \in Workers |-> NoDret]
    /\ disp = [j \in JobIds |-> 0]
    /\ term = [j \in JobIds |-> 0]
    /\ cwq = {}
    /\ enq = <<>>
    /\ proc = <<>>
    /\ ran = {}
    /\ shutdown = FALSE
    /\ spc = "idle"
    /\ mpc = "none"
    /\ stops = 0
    /\ info = NoInfo
    /\ request = NoRequest
    /\ sel = "none"
    /\ profile = "none"
    /\ target_codec = "none"
    /\ remux = FALSE
    /\ path = "none"
    /\ cands = <<>>
    /\ out_time = <<>>
    /\ last_error = "none"
    /\ raised = "none"
    /\ detail = NoDetail
    /\ use_hw = FALSE
    /\ decoder_name = ""
    /\ encoder_name = ""

\* TranscodeEngine.__init__ on a host whose ffmpeg lists no RKMPP codec
\* (engine.py 29-32) followed by JobManager.__init__
Init ==
    /\ InitManager
    /\ ffmpeg_encoders = {}
    /\ ffmpeg_decoders = {}
    /\ hw_device = FALSE

\* the same on every host: any cached capability lists, device or not
InitCaps ==
    /\ InitManager
    /\ ffmpeg_encoders \in SUBSET RkmppEncoders
    /\ ffmpeg_decoders \in SUBSET RkmppDecoders
    /\ hw_device \in BOOLEAN

\* history of terminal transitions: a write of `new` over `old`
TermCount(j, old, new) ==
    IF new \in Terminal /\ new # old THEN [term EXCEPT ![j] = @ + 1] ELSE term

\* the clock advances
Tick ==
    /\ now < MaxTime
    /\ now' = now + 1
    /\ UNCHANGED <<sub, ts, rec, records, queue, putters, files, worker_task,
                   maintenance_task, nworkers, wpc, cur, branch, attempt, eng,
                   cancels, dret, disp, term, cwq, enq, proc, ran, stopVars,
                   selVars, runVars, capVars>>

\* ------------------------------------------------------------ asyncio.Queue
\* Queue.full(): maxsize > 0 and qsize() >= maxsize
full(q) == Len(q) >= max_queue_size

\* ------------------------------------------------------------- submit_job
\* submit_job up to its first suspension (jobs.py 132-139): a fresh uuid4,
\* `timestamp` is taken, then the upload is being persisted.
SubmitBegin(j) ==
    /\ sub[j] = "none"
    /\ \A i \in JobIds : i < j => sub[i] # "none"
    /\ sub' = [sub EXCEPT ![j] = "upload"]
    /\ ts' = [ts EXCEPT ![j] = now]
    /\ UNCHANGED <<now, rec, records, queue, putters, files, worker_task,
                   maintenance_task, nworkers, wpc, cur, branch, attempt, eng,
                   cancels, dret, disp, term, cwq, enq, proc, ran, stopVars,
                   selVars, runVars, capVars>>

\* what queue.put does in the step that calls it (jobs.py 163): put_nowait
\* when there is room, otherwise the caller waits in _putters
PutEnqueues(q) == ~full(q)

\* queue.put(WorkItem) on behalf of job j
QueuePut(j) ==
    IF PutEnqueues(queue)
    THEN /\ queue' = Append(queue, j)
         /\ enq' = Append(enq, j)
         /\ putters' = putters
         /\ sub' = [sub EXCEPT ![j] = "done"]
    ELSE /\ putters' = Append(putters, j)
         /\ sub' = [sub EXCEPT ![j] = "put"]
         /\ UNCHANGED <<queue, enq>>

\* submit_job after the upload (jobs.py 140-167): the record is built and
\* stored, then queue.put either enqueues at once or suspends the submitter.
SubmitRecord(j, cb) ==
    /\ sub[j] = "upload"
    /\ files' = files \cup {<<"in", j>>}
    /\ rec' = [rec EXCEPT ![j] = NewRecord(ts[j], cb)]
    /\ records' = records \cup {j}
    /\ QueuePut(j)
    /\ ts' = [ts EXCEPT ![j] = 0]
    /\ UNCHANGED <<now, worker_task, maintenance_task, nworkers, wpc, cur,
                   branch, attempt, eng, cancels, dret, disp, term, cwq, proc,
                   ran, stopVars, selVars, runVars, capVars>>

\* a submitter woken in put() runs again (asyncio.Queue.put: the while loop
\* re-tests full(); another submitter may have taken the free slot)
PutResume(j) ==
    /\ sub[j] = "woken"
    /\ QueuePut(j)
    /\ UNCHANGED <<now, ts, rec, records, files, worker_task, maintenance_task,
                   nworkers, wpc, cur, branch, attempt, eng, cancels, dret,
                   disp, term, cwq, proc, ran, stopVars, selVars, runVars, capVars>>

\* -------------------------------------------------------------- cancel_job
\* cancel_job without "cancelled" in its set of terminal statuses
CancelResult_recancels(j) ==
    IF j \notin records THEN FALSE
    ELSE IF rec[j].status \in {"completed", "failed"} THEN FALSE
    ELSE TRUE

\* the value cancel_job returns for job id j (jobs.py 177-184)
CancelResult(j) ==
    IF j \notin records THEN FALSE
    ELSE IF rec[j].status \in Terminal THEN FALSE
    ELSE TRUE

cancel_job(j) ==
    /\ IF CancelResult(j)
       THEN /\ rec' = [rec EXCEPT ![j].status = "cancelled", ![j].updated_at = now]
            /\ term' = TermCount(j, rec[j].status, "cancelled")
            /\ cwq' = IF rec[j].status = "queued" THEN cwq \cup {j} ELSE cwq
       ELSE UNCHANGED <<rec, term, cwq>>
    /\ cancels' = 1 - cancels
    /\ UNCHANGED <<now, sub, ts, records, queue, putters, files, worker_task,
                   maintenance_task, nworkers, wpc, cur, branch, attempt, eng,
                   dret, disp, enq, proc, ran, stopVars, selVars, runVars, capVars>>

\* ------------------------------------------------------ purge_expired_jobs
\* list_jobs (jobs.py 173-174): the job ids of the details returned;
\* get_job returns a detail for the same ids (jobs.py 169-171)
list_jobs == records

\* a purge that spares the jobs still on their way
to_delete_terminal ==
    {j \in records : /\ rec[j].updated_at < now - job_retention_minutes
                     /\ rec[j].status \in Terminal}

\* the job ids purge selects (jobs.py 187-188)
to_delete == {j \in records : rec[j].updated_at < now - job_retention_minutes}

\* run by the maintenance loop (jobs.py 186-202); the step is taken when it
\* removes something
purge_expired_jobs ==
    /\ maintenance_task
    /\ mpc = "sleep"
    /\ to_delete # {}
    /\ records' = records \ to_delete
    /\ files' = files \ ({<<"in", j>> : j \in to_delete}
                         \cup {<<"out", j>> : j \in {i \in to_delete : rec[i].output_path}})
    /\ UNCHANGED <<now, sub, ts, rec, queue, putters, worker_task,
                   maintenance_task, nworkers, wpc, cur, branch, attempt, eng,
                   cancels, dret, disp, term, cwq, enq, proc, ran, stopVars,
                   selVars, runVars, capVars>>

\* ------------------------------------------------------------------- start
\* start() without its test of worker_task
StartsWorker_always == TRUE

\* start() creates the worker only when there is none (jobs.py 115)
StartsWorker == worker_task = 0

\* a loop that ends the first time it runs
FirstRun_exits(waiting) == "done"

\* where a task created by start() gets to when it first runs: both loops
\* test _shutdown before anything else (jobs.py 200, 208); the worker then
\* waits in queue.get(), the maintenance loop purges and sleeps
FirstRun(waiting) == IF shutdown THEN "done" ELSE waiting

\* start() (jobs.py 114-119); the step is taken when it creates a task
start ==
    /\ \/ StartsWorker /\ nworkers < NumWorkers
       \/ ~maintenance_task
    /\ IF StartsWorker /\ nworkers < NumWorkers
       THEN /\ nworkers' = nworkers + 1
            /\ worker_task' = nworkers + 1
            /\ wpc' = [wpc EXCEPT ![nworkers + 1] = FirstRun("get")]
       ELSE UNCHANGED <<nworkers, worker_task, wpc>>
    /\ maintenance_task' = TRUE
    /\ mpc' = IF maintenance_task THEN mpc ELSE FirstRun("sleep")
    /\ UNCHANGED <<now, sub, ts, rec, records, queue, putters, files, cur,
                   branch, attempt, eng, cancels, dret, disp, term, cwq, enq,
                   proc, ran, shutdown, spc, stops, selVars, runVars, capVars>>

\* ------------------------------------------------------------------ _worker
\* a queue that hands out its newest item
QueueGet_lifo(q) == <<q[Len(q)], SubSeq(q, 1, Len(q) - 1)>>

\* queue.get(): the item returned and the items left (FIFO)
QueueGet(q) == <<Head(q), Tail(q)>>

\* a worker that does not test the dequeued record
SkipsItem_never(r) == FALSE

\* the test made on a dequeued record (jobs.py 216)
SkipsItem(r) == r.status = "cancelled"

\* get_nowait wakes the first submitter waiting in put()
WakePutter ==
    IF putters # <<>>
    THEN /\ sub' = [sub EXCEPT ![Head(putters)] = "woken"]
         /\ putters' = Tail(putters)
    ELSE UNCHANGED <<sub, putters>>

\* one pass of the worker loop from queue.get() to the await of
\* transcoder.process, which starts _process_sync on an executor thread
\* (jobs.py 208-227, engine.py 34-36)
WorkerGet(w) ==
    /\ wpc[w] = "get"
    /\ queue # <<>>
    /\ LET j == QueueGet(queue)[1] IN
       /\ queue' = QueueGet(queue)[2]
       /\ WakePutter
       /\ IF SkipsItem(rec[j])
          THEN UNCHANGED <<rec, wpc, cur, eng, proc, ran>>
          ELSE /\ rec' = [rec EXCEPT ![j].status = "processing",
                                     ![j].updated_at = now,
                                     ![j].transcode_started_at = now]
               /\ wpc' = [wpc EXCEPT ![w] = "engine"]
               /\ cur' = [cur EXCEPT ![w] = j]
               /\ eng' = [eng EXCEPT ![j] = "probe"]
               /\ proc' = Append(proc, j)
               /\ ran' = ran \cup {j}
    /\ UNCHANGED <<now, ts, records, files, worker_task, maintenance_task,
                   nworkers, branch, attempt, cancels, dret, disp, term, cwq,
                   enq, stopVars, selVars, runVars, capVars>>

\* a _fire_callback that starts the dispatch as a task of its own (here in
\* the slot of another task) and lets the worker go on
FireCallback_detached(w, j, br) ==
    IF rec'[j].callback_url
    THEN LET t == CHOOSE x \in Workers : x # w IN
         /\ disp' = [disp EXCEPT ![j] = @ + 1]
         /\ dret' = [dret EXCEPT ![t] = [attempts |-> 0, delivered |-> FALSE,
                                         how |-> "running"]]
         /\ attempt' = [attempt EXCEPT ![t] = 1]
         /\ branch' = [branch EXCEPT ![t] = br]
         /\ wpc' = [wpc EXCEPT ![t] = "post", ![w] = "get"]
         /\ cur' = [cur EXCEPT ![t] = j, ![w] = 0]
    ELSE /\ wpc' = [wpc EXCEPT ![w] = "get"]
         /\ cur' = [cur EXCEPT ![w] = 0]
         /\ UNCHANGED <<disp, dret, attempt, branch>>

\* _fire_callback (jobs.py 245-254) on the record as just written: without a
\* callback URL it returns and the worker loops; otherwise dispatch runs up
\* to its first client.post
FireCallback(w, j, br) ==
    IF rec'[j].callback_url
    THEN /\ disp' = [disp EXCEPT ![j] = @ + 1]
         /\ dret' = [dret EXCEPT ![w] = [attempts |-> 0, delivered |-> FALSE,
                                         how |-> "running"]]
         /\ attempt' = [attempt EXCEPT ![w] = 1]
         /\ branch' = [branch EXCEPT ![w] = br]
         /\ wpc' = [wpc EXCEPT ![w] = "post"]
         /\ cur' = cur
    ELSE /\ wpc' = [wpc EXCEPT ![w] = "get"]
         /\ cur' = [cur EXCEPT ![w] = 0]
         /\ UNCHANGED <<disp, dret, attempt, branch>>

\* an except branch that records no error message
WriteFailed_noError(r) ==
    [r EXCEPT !.status = "failed",
              !.updated_at = now,
              !.transcode_finished_at =
                  IF @ = None /\ r.transcode_started_at # None THEN now ELSE @]

\* the record as the except branch writes it (jobs.py 236-240)
WriteFailed(r) ==
    [r EXCEPT !.status = "failed",
              !.updated_at = now,
              !.error = TRUE,
              !.transcode_finished_at =
                  IF @ = None /\ r.transcode_started_at # None THEN now ELSE @]

\* the except branch of the worker (jobs.py 234-241)
ExceptBranch(w, j) ==
    /\ rec' = [rec EXCEPT ![j] = WriteFailed(rec[j])]
    /\ term' = TermCount(j, rec[j].status, "failed")
    /\ FireCallback(w, j, "except")

\* what the worker's steps after the engine leave alone
notWorker == <<now, sub, ts, records, queue, putters, files, worker_task,
               maintenance_task, nworkers, eng, cancels, cwq, enq, proc, ran,
               stopVars, selVars, runVars, capVars>>

\* a worker that stores the status but not the result's output path
WriteCompleted_noOutput(r) ==
    [r EXCEPT !.transcode_finished_at = now,
              !.status = "completed",
              !.updated_at = now]

\* a worker that leaves a record cancelled during the run as it is
WriteCompleted_honoursCancel(r) ==
    IF r.status = "cancelled" THEN r
    ELSE [r EXCEPT !.transcode_finished_at = now,
                   !.output_path = TRUE,
                   !.status = "completed",
                   !.updated_at = now]

\* the record as the worker writes it after the engine returned
\* (jobs.py 228-231)
WriteCompleted(r) ==
    [r EXCEPT !.transcode_finished_at = now,
              !.output_path = TRUE,
              !.status = "completed",
              !.updated_at = now]

\* transcoder.process returned a result (jobs.py 228-233)
WorkerComplete(w) ==
    /\ wpc[w] = "engine"
    /\ eng[cur[w]] = "ok"
    /\ LET j == cur[w] IN
       /\ rec' = [rec EXCEPT ![j] = WriteCompleted(rec[j])]
       /\ term' = TermCount(j, rec[j].status, "completed")
       /\ FireCallback(w, j, "try")
    /\ UNCHANGED notWorker

\* transcoder.process raised (jobs.py 234-241)
WorkerFail(w) ==
    /\ wpc[w] = "engine"
    /\ eng[cur[w]] = "err"
    /\ ExceptBranch(w, cur[w])
    /\ UNCHANGED notWorker

\* ------------------------------------------------- CallbackDispatcher.dispatch
\* client.post or response.raise_for_status raises (callbacks.py 32-33)
PostRaises(o) == o # "2xx"

\* a loop running one attempt too many
MoreAttempts_offByOne(a) == a <= callback_max_attempts

\* the for loop has another iteration after attempt a (callbacks.py 30)
MoreAttempts(a) == a < callback_max_attempts

\* a dispatch that raises once its attempts are exhausted
OnExhausted_raises == "raised"

\* how dispatch ends when the loop is exhausted (callbacks.py 42)
OnExhausted == "returned"

\* dispatch is over; control is back in the worker.  A normal return falls
\* through `finally` to the top of the loop.  An exception raised out of the
\* try block runs the except branch; raised out of the except branch it ends
\* the worker task (jobs.py 225-243).
DispatchEnds(w, how, d) ==
    IF how = "returned" \/ branch[w] # "try"
    THEN /\ dret' = [dret EXCEPT ![w] = [d EXCEPT !.how = how]]
         /\ wpc' = [wpc EXCEPT ![w] = IF how = "returned" THEN "get" ELSE "crashed"]
         /\ cur' = [cur EXCEPT ![w] = 0]
         /\ attempt' = [attempt EXCEPT ![w] = 0]
         /\ branch' = [branch EXCEPT ![w] = "none"]
         /\ UNCHANGED <<rec, term, disp>>
    ELSE ExceptBranch(w, cur[w])

\* one POST attempt completes (callbacks.py 31-41): success returns, failure
\* goes to the backoff sleep
DispatchPost(w, o) ==
    /\ wpc[w] = "post"
    /\ LET d == [dret[w] EXCEPT !.attempts = attempt[w]] IN
       IF PostRaises(o)
       THEN /\ dret' = [dret EXCEPT ![w] = d]
            /\ wpc' = [wpc EXCEPT ![w] = "sleep"]
            /\ UNCHANGED <<rec, term, disp, branch, cur, attempt>>
       ELSE DispatchEnds(w, "returned", [d EXCEPT !.delivered = TRUE])
    /\ UNCHANGED notWorker

\* the backoff sleep is over (callbacks.py 41, then 30 or 42)
DispatchSleep(w) ==
    /\ wpc[w] = "sleep"
    /\ IF MoreAttempts(attempt[w])
       THEN /\ attempt' = [attempt EXCEPT ![w] = @ + 1]
            /\ wpc' = [wpc EXCEPT ![w] = "post"]
            /\ UNCHANGED <<rec, term, disp, branch, cur, dret>>
       ELSE DispatchEnds(w, OnExhausted, dret[w])
    /\ UNCHANGED notWorker

\* ------------------------------------------- TranscodeEngine._process_sync
\* what the engine thread leaves alone besides rec, files and eng
notEngine == <<now, sub, ts, records, queue, putters, worker_task,
               maintenance_task, nworkers, wpc, cur, branch, attempt, cancels,
               dret, disp, term, cwq, enq, proc, ran, stopVars, selVars, runVars, capVars>>

\* probe, profile and codec selection (engine.py 42-71): a ProbeError or an
\* unknown resolution raises, otherwise info.duration is stored and the
\* subprocess starts writing the work file
EngineProbe(j, ok, d) ==
    /\ eng[j] = "probe"
    /\ IF ok
       THEN /\ rec' = [rec EXCEPT ![j].media_duration_seconds = d]
            /\ eng' = [eng EXCEPT ![j] = "run"]
            /\ files' = files \cup {<<"work", j>>}
       ELSE /\ eng' = [eng EXCEPT ![j] = "err"]
            /\ UNCHANGED <<rec, files>>
    /\ UNCHANGED notEngine

\* _update_progress (engine.py 415-419)
_update_progress(r, processed_seconds, media_duration) ==
    [r EXCEPT !.transcode_media_seconds = processed_seconds,
              !.media_duration_seconds =
                  IF @ = None /\ media_duration > 0 THEN media_duration ELSE @,
              !.updated_at = now]

\* a progress line of the subprocess; the handler was built with
\* duration = record.media_duration_seconds or 0.0 (engine.py 216-221, 280-285)
EngineProgress(j, p) ==
    /\ eng[j] = "run"
    /\ LET duration == IF rec[j].media_duration_seconds = None THEN 0
                       ELSE rec[j].media_duration_seconds
       IN rec' = [rec EXCEPT ![j] = _update_progress(rec[j], p, duration)]
    /\ UNCHANGED <<files, eng>>
    /\ UNCHANGED notEngine

\* the subprocess exits (engine.py 95-102 on success, 334-339 on failure)
EngineExit(j, rc) ==
    /\ eng[j] = "run"
    /\ IF rc = 0
       THEN /\ files' = (files \ {<<"work", j>>}) \cup {<<"out", j>>}
            /\ rec' = [rec EXCEPT ![j].transcode_media_seconds =
                           IF rec[j].media_duration_seconds # None
                           THEN rec[j].media_duration_seconds ELSE @]
            /\ eng' = [eng EXCEPT ![j] = "ok"]
       ELSE /\ eng' = [eng EXCEPT ![j] = "err"]
            /\ UNCHANGED <<rec, files>>
    /\ UNCHANGED notEngine

\* ------------------------------------------- one engine run, step by step
\* Spec, SpecQueue and SpecStop take an engine run as EngineProbe,
\* EngineProgress and EngineExit: one subprocess and a move that is a rename.
\* The steps below follow _process_sync through its branches.

\* info.duration (probe.py 81): None, 0.0 or a length
ProbedDurations == {None, 0, 2}
\* seconds of the out_time_ms lines (engine.py 318-322); ffmpeg can print a
\* negative out_time before the first frame (-2 here: -1 is None)
ReportedSeconds == {-2, 0, 1, 3}
\* the branch taken at engine.py 73-93
Paths == {"remux", "cpu", "rkmpp"}

\* what the engine thread leaves alone besides rec, files, eng and its locals
notRun == <<now, sub, ts, records, queue, putters, worker_task,
            maintenance_task, nworkers, wpc, cur, branch, attempt, cancels,
            dret, disp, term, cwq, enq, proc, ran, stopVars, selVars, capVars,
            detail>>

\* filter_candidates of _transcode_rkmpp (engine.py 232-235); rga: /dev/rga
\* exists
filter_candidates(rga) ==
    IF rga THEN <<"rkrga", "format">> ELSE <<"format">>

\* _process_sync from the probe to the start of the first subprocess
\* (engine.py 42-93, 176, 216-221, 232-285, 306-313): a failed probe or an
\* unknown resolution raises; otherwise the duration is stored and ffmpeg
\* starts to write the work file.  p is the branch the decisions lead to.
RunProbe(j, ok, d, p, rga) ==
    /\ eng[j] = "probe"
    /\ IF ok
       THEN /\ rec' = [rec EXCEPT ![j].media_duration_seconds = d]
            /\ path' = p
            /\ cands' = IF p = "rkmpp" THEN filter_candidates(rga) ELSE <<p>>
            /\ files' = files \cup {<<"work", j>>}
            /\ eng' = [eng EXCEPT ![j] = "ffmpeg"]
            /\ raised' = "none"
       ELSE /\ eng' = [eng EXCEPT ![j] = "err"]
            /\ raised' = "probe"
            /\ path' = "none"
            /\ cands' = <<>>
            /\ UNCHANGED <<rec, files>>
    /\ out_time' = <<>>
    /\ last_error' = "none"
    /\ UNCHANGED notRun

\* a progress line of the running subprocess; out_time does not go back
\* within one run, and the remux run has no progress handler
\* (engine.py 176, 216-221, 280-285, 317-324)
FfmpegProgress(j, seconds) ==
    /\ eng[j] = "ffmpeg"
    /\ path # "remux"
    /\ IF out_time = <<>> THEN TRUE ELSE seconds >= out_time[1]
    /\ LET duration == IF rec[j].media_duration_seconds = None THEN 0
                       ELSE rec[j].media_duration_seconds
       IN rec' = [rec EXCEPT ![j] = _update_progress(rec[j], seconds, duration)]
    /\ out_time' = <<seconds>>
    /\ UNCHANGED <<files, eng, path, cands, last_error, raised>>
    /\ UNCHANGED notRun

\* a candidate's failure that leaves the partial work output in place
AfterFailedCandidate_keeps(fs, j) == fs

\* the files after a failed candidate: dest_path is unlinked
\* (engine.py 289-292)
AfterFailedCandidate(fs, j) == fs \ {<<"work", j>>}

\* the subprocess exits (engine.py 327-339).  Return code 0 ends _run_ffmpeg
\* and, in _transcode_rkmpp, the loop (286).  Another code raises
\* RuntimeError: out of _process_sync on the remux and cpu branches, into
\* the except branch of the loop on the rkmpp branch (287-292).
FfmpegExit(j, rc) ==
    /\ eng[j] = "ffmpeg"
    /\ IF rc = 0
       THEN /\ eng' = [eng EXCEPT ![j] = "move"]
            /\ UNCHANGED <<files, last_error, raised>>
       ELSE IF path = "rkmpp"
       THEN /\ last_error' = Head(cands)
            /\ files' = AfterFailedCandidate(files, j)
            /\ eng' = [eng EXCEPT ![j] = "retry"]
            /\ raised' = raised
       ELSE /\ raised' = Head(cands)
            /\ eng' = [eng EXCEPT ![j] = "err"]
            /\ UNCHANGED <<files, last_error>>
    /\ UNCHANGED <<rec, path, cands, out_time>>
    /\ UNCHANGED notRun

\* the loop of _transcode_rkmpp goes on (engine.py 253-285): the next
\* candidate's subprocess starts, or the candidates are exhausted and
\* last_error is raised (294-295)
NextCandidate(j) ==
    /\ eng[j] = "retry"
    /\ cands' = Tail(cands)
    /\ IF Tail(cands) # <<>>
       THEN /\ files' = files \cup {<<"work", j>>}
            /\ out_time' = <<>>
            /\ eng' = [eng EXCEPT ![j] = "ffmpeg"]
            /\ raised' = raised
       ELSE /\ raised' = last_error
            /\ eng' = [eng EXCEPT ![j] = "err"]
            /\ UNCHANGED <<files, out_time>>
    /\ UNCHANGED <<rec, path, last_error>>
    /\ UNCHANGED notRun

\* the record after engine.py 96-97
AfterMove(r) ==
    [r EXCEPT !.transcode_media_seconds =
                  IF r.media_duration_seconds # None
                  THEN r.media_duration_seconds ELSE @]

\* shutil.move(work_output, output_path) (engine.py 95): os.rename when both
\* directories are on one filesystem, otherwise the file is copied to the
\* output path and the source removed afterwards
MoveOutput(j, same_fs) ==
    /\ eng[j] = "move"
    /\ IF same_fs
       THEN /\ files' = (files \ {<<"work", j>>}) \cup {<<"out", j>>}
            /\ rec' = [rec EXCEPT ![j] = AfterMove(rec[j])]
            /\ eng' = [eng EXCEPT ![j] = "ok"]
       ELSE /\ files' = files \cup {<<"out", j>>, <<"partial", j>>}
            /\ eng' = [eng EXCEPT ![j] = "copy"]
            /\ rec' = rec
    /\ UNCHANGED <<path, cands, out_time, last_error, raised>>
    /\ UNCHANGED notRun

\* the copy of shutil.move ends: complete, and the work file is removed, or
\* with an OSError that leaves what was written at the output path
CopyOutput(j, ok) ==
    /\ eng[j] = "copy"
    /\ IF ok
       THEN /\ files' = files \ {<<"partial", j>>, <<"work", j>>}
            /\ rec' = [rec EXCEPT ![j] = AfterMove(rec[j])]
            /\ eng' = [eng EXCEPT ![j] = "ok"]
            /\ raised' = raised
       ELSE /\ eng' = [eng EXCEPT ![j] = "err"]
            /\ raised' = "move"
            /\ UNCHANGED <<files, rec>>
    /\ UNCHANGED <<path, cands, out_time, last_error>>
    /\ UNCHANGED notRun

\* ------------------------------------------------------- get_job, to_detail
Min(a, b) == IF a <= b THEN a ELSE b
Max(a, b) == IF a >= b THEN a ELSE b

\* processed = min(transcode_media_seconds, media_duration) (jobs.py 65)
Processed(seconds, media_duration) == Min(seconds, media_duration)

\* an ETA that is also given for a finished transcode
EtaOpen_always(r) == TRUE

\* the ETA is computed only for an unfinished transcode (jobs.py 67)
EtaOpen(r) == r.transcode_finished_at = None

\* JobRecord.to_detail (jobs.py 50-92): the progress and the ETA, each <<>>
\* for None or <<[num, den]>> for the quotient num / den
to_detail(r) ==
    IF /\ r.media_duration_seconds \notin {None, 0}
       /\ r.transcode_media_seconds # None
       /\ r.transcode_started_at # None
    THEN LET media_duration == r.media_duration_seconds
             processed == Processed(r.transcode_media_seconds, media_duration)
             elapsed == now - r.transcode_started_at
             remaining_media == Max(media_duration - processed, 0)
         IN [transcode_progress |->
                 <<[num |-> processed, den |-> media_duration]>>,
             transcode_eta_seconds |->
                 IF /\ processed # 0
                    /\ processed * media_duration > 0
                    /\ EtaOpen(r)
                    /\ elapsed > 0
                    /\ processed * elapsed > 0
                 THEN <<[num |-> remaining_media * elapsed, den |-> processed]>>
                 ELSE <<>>]
    ELSE NoDetail

\* get_job (jobs.py 169-171) on a stored record
get_job(j) ==
    /\ j \in records
    /\ detail' = to_detail(rec[j])
    /\ UNCHANGED <<now, sub, ts, rec, records, queue, putters, files,
                   worker_task, maintenance_task, nworkers, wpc, cur, branch,
                   attempt, eng, cancels, dret, disp, term, cwq, enq, proc, ran,
                   stopVars, selVars, capVars, path, cands, out_time,
                   last_error, raised>>

\* -------------------------------------------------------------------- stop
\* what stop() and the cancellation of the two tasks leave alone
notStop == <<now, sub, ts, rec, records, queue, putters, files, nworkers, eng,
             cancels, dret, disp, term, cwq, enq, proc, ran, selVars, runVars, capVars>>

\* a cancel() that the task never gets to see
CancelTask_lost(pc) == pc

\* task.cancel() on a task at position pc: a CancelledError is pending at the
\* await the task is suspended in, and the task's next step is to receive
\* it; a finished task is left as it is
CancelTask(pc) ==
    CASE pc = "get" -> "cancel_get"
      [] pc = "engine" -> "cancel_engine"
      [] pc = "post" -> "cancel_post"
      [] pc = "sleep" -> "cancel_sleep"
      [] OTHER -> pc

\* a stop() that does not wait for the task it cancelled
Terminated_noWait(pc) == TRUE

\* `await task` can be resumed: the task is done (jobs.py 126-127)
Terminated(pc) == pc \in {"done", "cancelled", "crashed"}

\* the end of stop() (jobs.py 128-129)
StopReturn ==
    /\ worker_task' = 0
    /\ maintenance_task' = FALSE
    /\ spc' = "idle"
    /\ stops' = stops + 1

\* the iteration of stop()'s loop on maintenance_task (jobs.py 123-127)
StopMaintenance ==
    IF maintenance_task
    THEN /\ mpc' = CancelTask(mpc)
         /\ spc' = "await_maintenance"
         /\ UNCHANGED <<worker_task, maintenance_task, stops>>
    ELSE /\ mpc' = mpc
         /\ StopReturn

\* stop() up to its first suspension (jobs.py 121-127)
stop ==
    /\ spc = "idle"
    /\ stops < MaxStops
    /\ shutdown' = TRUE
    /\ IF worker_task # 0
       THEN /\ wpc' = [wpc EXCEPT ![worker_task] = CancelTask(@)]
            /\ spc' = "await_worker"
            /\ UNCHANGED <<mpc, worker_task, maintenance_task, stops>>
       ELSE /\ wpc' = wpc
            /\ StopMaintenance
    /\ UNCHANGED <<cur, branch, attempt>>
    /\ UNCHANGED notStop

\* `await task` on the worker task is over (jobs.py 126-127); the exception
\* of a crashed worker is not a CancelledError and leaves stop() at once
StopAwaitWorker ==
    /\ spc = "await_worker"
    /\ Terminated(wpc[worker_task])
    /\ IF wpc[worker_task] = "crashed"
       THEN /\ spc' = "idle"
            /\ UNCHANGED <<mpc, worker_task, maintenance_task, stops>>
       ELSE StopMaintenance
    /\ UNCHANGED <<shutdown, wpc, cur, branch, attempt>>
    /\ UNCHANGED notStop

\* `await task` on the maintenance task is over (jobs.py 126-129)
StopAwaitMaintenance ==
    /\ spc = "await_maintenance"
    /\ Terminated(mpc)
    /\ StopReturn
    /\ UNCHANGED <<shutdown, wpc, mpc, cur, branch, attempt>>
    /\ UNCHANGED notStop

\* the worker receives the CancelledError.  In queue.get() it is caught and
\* the loop is left (jobs.py 209-212); at the await of the engine or inside
\* dispatch it is no Exception, so neither except branch runs and it ends
\* the task after `finally` (jobs.py 225-243, callbacks.py 31-41).  The
\* executor thread is not stopped.
WorkerCancelled(w) ==
    /\ wpc[w] \in {"cancel_get", "cancel_engine", "cancel_post", "cancel_sleep"}
    /\ wpc' = [wpc EXCEPT ![w] = IF @ = "cancel_get" THEN "done" ELSE "cancelled"]
    /\ cur' = [cur EXCEPT ![w] = 0]
    /\ attempt' = [attempt EXCEPT ![w] = 0]
    /\ branch' = [branch EXCEPT ![w] = "none"]
    /\ UNCHANGED <<shutdown, spc, mpc, stops, worker_task, maintenance_task>>
    /\ UNCHANGED notStop

\* the maintenance loop receives the CancelledError in its sleep and
\* re-raises it (jobs.py 202-205)
MaintenanceCancelled ==
    /\ mpc = "cancel_sleep"
    /\ mpc' = "cancelled"
    /\ UNCHANGED <<shutdown, spc, wpc, stops, worker_task, maintenance_task,
                   cur, branch, attempt>>
    /\ UNCHANGED notStop

\* ------------------------------------------------------------ str methods
\* str.lower() on the letters that occur
LowerChar(c) ==
    CASE c = "M" -> "m" [] c = "P" -> "p" [] c = "H" -> "h" [] c = "E" -> "e"
      [] c = "V" -> "v" [] c = "C" -> "c" [] OTHER -> c
lower(str) == [i \in DOMAIN str |-> LowerChar(str[i])]
\* `part in str`
Contains(part, str) ==
    \E i \in 0..(Len(str) - Len(part)) : SubSeq(str, i + 1, i + Len(part)) = part
\* truth value of an Optional[str]: None and "" are false
Truthy(str) == str # NoString /\ str # <<>>

\* ---------------------------------------------------------------- profiles
\* PROFILES in insertion order (profiles.py 18-47)
PROFILES ==
    << [name |-> "uhd_2160p", width |-> 3840, height |-> 2160, codec |-> "h265"],
       [name |-> "fhd_1080p", width |-> 1920, height |-> 1080, codec |-> "h264"],
       [name |-> "hd_720p", width |-> 1280, height |-> 720, codec |-> "h264"],
       [name |-> "sd_480p", width |-> 854, height |-> 480, codec |-> "h264"] >>

\* PROFILES[request]
ProfileOf(name) == PROFILES[CHOOSE i \in DOMAIN PROFILES : PROFILES[i].name = name]

\* sorted(ps, key=lambda p: p.height, reverse=True): the first profile of
\* greatest height, then the rest sorted
RECURSIVE sorted_profiles(_)
sorted_profiles(ps) ==
    IF ps = <<>> THEN <<>>
    ELSE LET m == CHOOSE i \in DOMAIN ps :
                      /\ \A k \in DOMAIN ps : ps[k].height <= ps[i].height
                      /\ \A k \in 1..(i - 1) : ps[k].height < ps[i].height
         IN <<ps[m]>> \o sorted_profiles(SubSeq(ps, 1, m - 1)
                                             \o SubSeq(ps, m + 1, Len(ps)))

\* a test that wants both dimensions of the source to reach the profile
Fits_both(p, source_width, source_height) ==
    source_height >= p.height /\ source_width >= p.width

\* the test of the auto loop (profiles.py 59)
Fits(p, source_width, source_height) ==
    source_height >= p.height \/ source_width >= p.width

\* choose_profile (profiles.py 50-61)
choose_profile(source_width, source_height, quality) ==
    IF quality # "auto" THEN ProfileOf(quality)
    ELSE LET sp == sorted_profiles(PROFILES)
             ok == {i \in DOMAIN sp : Fits(sp[i], source_width, source_height)}
         IN IF ok # {} THEN sp[CHOOSE i \in ok : \A k \in ok : i <= k]
            ELSE ProfileOf("sd_480p")

\* ------------------------------------------------- the engine's decisions
\* _map_codec_name (engine.py 421-429); "none" is None
_map_codec_name(codec) ==
    IF ~Truthy(codec) THEN "none"
    ELSE LET value == lower(codec) IN
         IF value \in {<<"h", "2", "6", "4">>, <<"a", "v", "c", "1">>,
                       <<"a", "v", "c">>} THEN "h264"
         ELSE IF value \in {<<"h", "2", "6", "5">>, <<"h", "e", "v", "c">>,
                            <<"h", "v", "c", "1">>} THEN "h265"
         ELSE "none"

\* the test of _select_profile and _should_remux on the video stream
\* (engine.py 115, 144): not video or not video.width or not video.height
NoResolution(i) ==
    \/ i.video = <<>>
    \/ i.video[1].width \in {None, 0}
    \/ i.video[1].height \in {None, 0}

\* a resolution that never keeps the codec of the source
KeepsSource_never(source_codec) == FALSE

\* the source codec is kept (engine.py 129)
KeepsSource(source_codec) == source_codec \in {"h264", "h265"}

\* _resolve_codec (engine.py 119-135)
_resolve_codec(i, p, r) ==
    IF r.codec # "auto" THEN r.codec
    ELSE LET source_codec == _map_codec_name(IF i.video # <<>>
                                             THEN i.video[1].codec_name
                                             ELSE NoString)
         IN IF KeepsSource(source_codec) THEN source_codec
            ELSE IF p.codec # "auto" THEN p.codec
            ELSE "h264"

\* a container test for the exact name mp4
is_mp4_container_exact(container) == container = <<"m", "p", "4">>

\* is_mp4_container (engine.py 152)
is_mp4_container(container) ==
    Truthy(container) /\ Contains(<<"m", "p", "4">>, lower(container))

\* _should_remux (engine.py 137-159)
_should_remux(i, p, target) ==
    IF NoResolution(i) THEN FALSE
    ELSE LET video == i.video[1]
             source_codec == _map_codec_name(video.codec_name)
             tc == IF target = "auto"
                   THEN (IF source_codec # "none" THEN source_codec ELSE "h264")
                   ELSE target
         IN IF source_codec # tc THEN FALSE
            ELSE IF ~is_mp4_container(i.container) THEN FALSE
            ELSE IF video.width > p.width \/ video.height > p.height THEN FALSE
            ELSE TRUE

\* what the decisions leave alone
notSelect == <<now, sub, ts, rec, records, queue, putters, files, worker_task,
               maintenance_task, nworkers, wpc, cur, branch, attempt, eng,
               cancels, dret, disp, term, cwq, enq, proc, ran, stopVars, runVars,
               capVars>>

\* process(record, request) starts _process_sync (engine.py 34-41)
process(r) ==
    /\ sel = "none"
    /\ request' = r
    /\ sel' = "probe"
    /\ UNCHANGED <<info, profile, target_codec, remux>>
    /\ UNCHANGED notSelect

\* self._probe returns a MediaInfo (engine.py 42)
_probe(i) ==
    /\ sel = "probe"
    /\ info' = i
    /\ sel' = "probed"
    /\ UNCHANGED <<request, profile, target_codec, remux>>
    /\ UNCHANGED notSelect

\* _select_profile (engine.py 54, 113-117)
_select_profile ==
    /\ sel = "probed"
    /\ IF NoResolution(info)
       THEN /\ sel' = "err"
            /\ UNCHANGED profile
       ELSE /\ profile' = choose_profile(info.video[1].width,
                                         info.video[1].height,
                                         request.quality).name
            /\ sel' = "profile"
    /\ UNCHANGED <<info, request, target_codec, remux>>
    /\ UNCHANGED notSelect

\* target_codec = self._resolve_codec(...) (engine.py 55)
ResolveCodec ==
    /\ sel = "profile"
    /\ target_codec' = _resolve_codec(info, ProfileOf(profile), request)
    /\ sel' = "codec"
    /\ UNCHANGED <<info, request, profile, remux>>
    /\ UNCHANGED notSelect

\* the branch on self._should_remux(...) (engine.py 73-93)
ShouldRemux ==
    /\ sel = "codec"
    /\ remux' = _should_remux(info, ProfileOf(profile), target_codec)
    /\ sel' = IF remux' THEN "remux" ELSE "transcode"
    /\ UNCHANGED <<info, request, profile, target_codec>>
    /\ UNCHANGED notSelect

\* _rkmpp_decoder_name (engine.py 378-390); "none" is None
_rkmpp_decoder_name(codec_name) ==
    LET codec == lower(codec_name) IN
    CASE codec = <<"a", "v", "1">> -> "av1_rkmpp"
      [] codec = <<"v", "p", "9">> -> "vp9_rkmpp"
      [] codec = <<"v", "p", "8">> -> "vp8_rkmpp"
      [] codec \in {<<"h", "2", "6", "4">>, <<"a", "v", "c", "1">>,
                    <<"a", "v", "c">>} -> "h264_rkmpp"
      [] codec \in {<<"h", "2", "6", "5">>, <<"h", "e", "v", "c">>}
             -> "hevc_rkmpp"
      [] OTHER -> "none"

\* _rkmpp_encoder_name (engine.py 392-395)
_rkmpp_encoder_name(codec) ==
    IF codec = "h265" THEN "hevc_rkmpp" ELSE "h264_rkmpp"

\* _select_rkmpp_codecs (engine.py 362-376): (use_hw, decoder, encoder), the
\* names "" when there is none
_select_rkmpp_codecs(i, codec) ==
    LET mapped == IF i.video # <<>> /\ Truthy(i.video[1].codec_name)
                  THEN _rkmpp_decoder_name(i.video[1].codec_name)
                  ELSE "none"
        decoder == IF mapped # "none" /\ mapped \notin ffmpeg_decoders
                   THEN "none" ELSE mapped
        named == _rkmpp_encoder_name(codec)
        encoder == IF named \notin ffmpeg_encoders THEN "none" ELSE named
    IN [use_hw |-> encoder # "none",
        decoder |-> IF decoder = "none" THEN "" ELSE decoder,
        encoder |-> IF encoder = "none" THEN "" ELSE encoder]

\* the transcode branch of _process_sync up to the command line
\* (engine.py 78-93, 237-250): with use_hw the rkmpp command is built, the
\* decoder arguments in it when decoder_name is not empty; otherwise the
\* software encoder runs
SelectRkmppCodecs ==
    /\ sel = "transcode"
    /\ LET c == _select_rkmpp_codecs(info, target_codec)
       IN /\ use_hw' = c.use_hw
          /\ decoder_name' = c.decoder
          /\ encoder_name' = c.encoder
          /\ sel' = IF c.use_hw THEN "rkmpp" ELSE "cpu"
    /\ UNCHANGED <<info, request, profile, target_codec, remux>>
    /\ UNCHANGED <<ffmpeg_encoders, ffmpeg_decoders, hw_device>>
    /\ UNCHANGED <<now, sub, ts, rec, records, queue, putters, files,
                   worker_task, maintenance_task, nworkers, wpc, cur, branch,
                   attempt, eng, cancels, dret, disp, term, cwq, enq, proc, ran,
                   stopVars, runVars>>

\* ---------------------------------------------------------- specification
\* The job manager with the clock and the purge.  MaxSubmits jobs never fill
\* the queue, so no submitter waits in put() here.
Next ==
    \/ Tick
    \/ start
    \/ \E j \in 1..MaxSubmits : SubmitBegin(j)
    \/ \E j \in JobIds, cb \in BOOLEAN : SubmitRecord(j, cb)
    \/ \E j \in JobIds : cancel_job(j)
    \/ purge_expired_jobs
    \/ \E w \in Workers : WorkerGet(w)
    \/ \E w \in Workers : WorkerComplete(w)
    \/ \E w \in Workers : WorkerFail(w)
    \/ \E w \in Workers, o \in PostOutcomes : DispatchPost(w, o)
    \/ \E w \in Workers : DispatchSleep(w)
    \/ \E j \in JobIds, ok \in BOOLEAN, d \in Durations : EngineProbe(j, ok, d)
    \/ \E j \in JobIds, p \in ProgressValues : EngineProgress(j, p)
    \/ \E j \in JobIds, rc \in {0, 1} : EngineExit(j, rc)

Spec == Init /\ [][Next]_vars

\* a worker task's next step: the loop of _worker with the dispatch it awaits
\* (jobs.py 207-243, callbacks.py 28-42)
WorkerLoop(w) ==
    \/ WorkerGet(w)
    \/ WorkerComplete(w)
    \/ WorkerFail(w)
    \/ \E o \in PostOutcomes : DispatchPost(w, o)
    \/ DispatchSleep(w)

\* the executor thread's step towards the end of _process_sync
\* (engine.py 38-102)
EngineRun(j) ==
    \/ \E ok \in BOOLEAN, d \in Durations : EngineProbe(j, ok, d)
    \/ \E rc \in {0, 1} : EngineExit(j, rc)

\* The scheduling the program runs under: the application starts the manager
\* (main.py 50), the event loop runs every task that is ready, a post and a
\* backoff sleep end, and an engine run on the executor comes to its end.
Fairness ==
    /\ WF_vars(start)
    /\ \A w \in Workers : WF_vars(WorkerLoop(w))
    /\ \A j \in JobIds : WF_vars(EngineRun(j))

\* The manager that is never stopped, under that scheduling.
NextLive ==
    \/ start
    \/ \E j \in 1..MaxSubmits : SubmitBegin(j)
    \/ \E j \in JobIds, cb \in BOOLEAN : SubmitRecord(j, cb)
    \/ \E j \in JobIds : cancel_job(j)
    \/ \E w \in Workers : WorkerLoop(w)
    \/ \E j \in JobIds : EngineRun(j)
    \/ \E j \in JobIds, p \in ProgressValues : EngineProgress(j, p)

SpecLive == Init /\ [][NextLive]_vars /\ Fairness

\* The same program with every job id submitted and the clock standing still
\* (no purge selects a job within the first minute): the specification for
\* the claims about a saturated queue.
NextQueue ==
    \/ start
    \/ \E j \in JobIds : SubmitBegin(j)
    \/ \E j \in JobIds, cb \in BOOLEAN : SubmitRecord(j, cb)
    \/ \E j \in JobIds : PutResume(j)
    \/ \E j \in JobIds : cancel_job(j)
    \/ \E w \in Workers : WorkerGet(w)
    \/ \E w \in Workers : WorkerComplete(w)
    \/ \E w \in Workers : WorkerFail(w)
    \/ \E w \in Workers, o \in PostOutcomes : DispatchPost(w, o)
    \/ \E w \in Workers : DispatchSleep(w)
    \/ \E j \in JobIds, ok \in BOOLEAN, d \in Durations : EngineProbe(j, ok, d)
    \/ \E j \in JobIds, p \in ProgressValues : EngineProgress(j, p)
    \/ \E j \in JobIds, rc \in {0, 1} : EngineExit(j, rc)

SpecQueue == Init /\ [][NextQueue]_vars

\* The manager with stop(): Spec's steps, the steps of stop() and the two
\* tasks' reactions to their cancellation.
NextStop ==
    \/ Next
    \/ stop
    \/ StopAwaitWorker
    \/ StopAwaitMaintenance
    \/ \E w \in Workers : WorkerCancelled(w)
    \/ MaintenanceCancelled

SpecStop == Init /\ [][NextStop]_vars

\* One job through the worker with the engine run step by step, and get_job.
NextEngine ==
    \/ Tick
    \/ start
    \/ SubmitBegin(1)
    \/ SubmitRecord(1, FALSE)
    \/ cancel_job(1)
    \/ get_job(1)
    \/ \E w \in Workers : WorkerGet(w)
    \/ \E w \in Workers : WorkerComplete(w)
    \/ \E w \in Workers : WorkerFail(w)
    \/ \E ok \in BOOLEAN, d \in ProbedDurations, p \in Paths, rga \in BOOLEAN :
           RunProbe(1, ok, d, p, rga)
    \/ \E seconds \in ReportedSeconds : FfmpegProgress(1, seconds)
    \/ \E rc \in {0, 1} : FfmpegExit(1, rc)
    \/ NextCandidate(1)
    \/ \E same_fs \in BOOLEAN : MoveOutput(1, same_fs)
    \/ \E ok \in BOOLEAN : CopyOutput(1, ok)

SpecEngine == Init /\ [][NextEngine]_vars

\* One run of the engine's decisions on every request and probe result.
NextSelect ==
    \/ \E r \in JobRequests : process(r)
    \/ \E i \in MediaInfos : _probe(i)
    \/ _select_profile
    \/ ResolveCodec
    \/ ShouldRemux

SpecSelect == Init /\ [][NextSelect]_vars

\* probe results of one resolution in a container that is remuxed and one
\* that is not
CapsInfos ==
    {i \in MediaInfos :
        /\ i.container \in {<<"M", "P", "4">>, <<"w", "e", "b", "m">>}
        /\ i.video # <<>> => (i.video[1].width = 1280 /\ i.video[1].height = 720)}

\* The engine's decisions down to the encoder and decoder, on every cached
\* capability listing, with and without an acceleration device on the host.
NextCaps ==
    \/ \E r \in JobRequests : process(r)
    \/ \E i \in CapsInfos : _probe(i)
    \/ _select_profile
    \/ ResolveCodec
    \/ ShouldRemux
    \/ SelectRkmppCodecs

SpecCaps == InitCaps /\ [][NextCaps]_vars

\* ------------------------------------------------------------------ claims
Range(f) == {f[i] : i \in DOMAIN f}
Pos(f, x) == CHOOSE i \in DOMAIN f : f[i] = x
Dispatching(w) == wpc[w] \in {"post", "sleep"}

\* the edges of the status state machine
Edges == {<<"queued", "processing">>, <<"processing", "completed">>,
          <<"processing", "failed">>, <<"queued", "cancelled">>}

\* C1: every change of a job's status follows one of the edges
\* queued->processing, processing->completed, processing->failed,
\* queued->cancelled; so a completed, failed or cancelled status never changes.
C1_StatusEdges ==
    [][\A j \in JobIds :
          (rec[j].status # "absent" /\ rec'[j].status # rec[j].status)
              => <<rec[j].status, rec'[j].status>> \in Edges]_vars

\* C2: a job on which cancel succeeded while its status was queued is never
\* set to processing and the engine is never started on it.
C2_CancelledQueuedNeverRuns ==
    \A j \in cwq : /\ rec[j].status = "cancelled"
                   /\ j \notin ran
                   /\ j \notin Range(proc)
                   /\ eng[j] = "none"

\* a job cancelled while queued whose work item was dequeued by the worker
C2_Witness ==
    \E j \in cwq : /\ j \in Range(enq)
                   /\ j \notin Range(queue)
                   /\ \E w \in Workers : wpc[w] = "get"

\* C3: cancel_job on an unknown job id or on a completed, failed or cancelled
\* job returns false and changes no job record (nor the store).
C3_CancelTerminalNoop ==
    [][\A j \in JobIds :
          (cancel_job(j) /\ (j \notin records \/ rec[j].status \in Terminal))
              => (~CancelResult(j) /\ rec' = rec /\ records' = records)]_vars

\* a cancel was served that cancelled nothing, and a completed job is stored
C3_Witness ==
    /\ cancels = 1
    /\ \A j \in JobIds : term[j] <= 1 /\ rec[j].status # "cancelled"
    /\ \E j \in records : rec[j].status = "completed"

\* C4: at most one job is being transcoded at any moment: at most one engine
\* run has not returned, at most one worker awaits one, and at most one job
\* has status processing.
C4_OneTranscode ==
    /\ Cardinality({j \in JobIds : eng[j] \in {"probe", "run"}}) <= 1
    /\ Cardinality({w \in Workers : wpc[w] = "engine"}) <= 1
    /\ Cardinality({j \in JobIds : rec[j].status = "processing"}) <= 1

\* the engine runs on one job while another work item waits in the queue
C4_Witness ==
    /\ \E j \in JobIds : eng[j] = "run" /\ rec[j].status = "processing"
    /\ queue # <<>>

\* C5: for jobs A enqueued before B, neither cancelled while queued: once B
\* has entered processing, A entered processing before it and is no longer
\* being processed.
C5_Fifo ==
    \A a, b \in DOMAIN enq :
        (a < b /\ enq[a] \notin cwq /\ enq[b] \notin cwq /\ enq[b] \in Range(proc))
            => /\ enq[a] \in Range(proc)
               /\ Pos(proc, enq[a]) < Pos(proc, enq[b])
               /\ rec[enq[a]].status # "processing"
               /\ eng[enq[a]] \notin {"probe", "run"}

\* job 2 was enqueued before job 1 and both were processed, in that order
C5_Witness == enq = <<2, 1>> /\ proc = <<2, 1>>

\* C6: a submit that finds the queue full fails at once: no submit_job call
\* is ever suspended in queue.put waiting for space.
C6_SubmitNeverBlocks == \A j \in JobIds : sub[j] \notin {"put", "woken"}

\* C7: the job store holds a record only for jobs whose work item was
\* enqueued.
C7_RecordOnlyIfEnqueued == \A j \in records : j \in Range(enq)

\* C8: for a job with a callback URL, every transition into a terminal status
\* starts exactly one dispatch sequence.
C8_DispatchPerTerminal ==
    \A j \in JobIds : rec[j].callback_url => disp[j] = term[j]

\* C9: a dispatch makes at most callback_max_attempts POST attempts, none
\* after a 2xx response, and ends by returning: it never raises into the
\* worker, whether delivered or exhausted.
C9_DispatchBounded ==
    \A w \in Workers :
        /\ attempt[w] <= callback_max_attempts
        /\ dret[w].attempts <= callback_max_attempts
        /\ dret[w].delivered => dret[w].how = "returned"
        /\ dret[w].how # "raised"
        /\ wpc[w] # "crashed"
        /\ (dret[w].how = "returned" /\ ~dret[w].delivered)
               => dret[w].attempts = callback_max_attempts

\* a dispatch returned after callback_max_attempts failed attempts
C9_Witness ==
    \E w \in Workers : /\ dret[w].how = "returned"
                       /\ ~dret[w].delivered
                       /\ dret[w].attempts = callback_max_attempts

\* C10: from the start of a job's callback dispatch up to and including its
\* return, no step changes the job's status, error or output location.
C10_DispatchKeepsOutcome ==
    [][\A w \in Workers :
          Dispatching(w) => Outcome(rec'[cur[w]]) = Outcome(rec[cur[w]])]_vars

\* the dispatch of a completed job has returned undelivered
C10_Witness ==
    \E w \in Workers :
        /\ dret[w].how = "returned" /\ ~dret[w].delivered
        /\ wpc[w] = "get"
        /\ \E j \in JobIds : /\ rec[j].status = "completed"
                             /\ rec[j].callback_url
                             /\ rec[j].output_path
                             /\ disp[j] = 1

\* the worker is not awaiting the engine run on job j
EngineAwaited(j) == \E w \in Workers : wpc[w] = "engine" /\ cur[w] = j

\* C11: for every job record, the output location is set if and only if the
\* status is completed, also while and after a job is cancelled during its
\* transcode.
C11_OutputIffCompleted ==
    \A j \in JobIds :
        rec[j].status # "absent"
            => (rec[j].output_path <=> rec[j].status = "completed")

\* a job cancelled during its transcode whose engine run has succeeded, before
\* the worker stores the result
C11_Witness ==
    \E j \in ran : /\ rec[j].status = "cancelled"
                   /\ eng[j] = "ok"
                   /\ <<"out", j>> \in files

\* C12: whenever the media duration and the processed media seconds of a
\* record are both known, the processed media seconds do not exceed the media
\* duration.
C12_ProgressWithinDuration ==
    \A j \in JobIds :
        (rec[j].media_duration_seconds # None
            /\ rec[j].transcode_media_seconds # None)
            => rec[j].transcode_media_seconds <= rec[j].media_duration_seconds

\* C13: a purge removes a job from the store, with its source and output
\* files, if and only if now - updated_at >= retention window; the other jobs
\* and their files are left unchanged.
C13_PurgeAtRetention ==
    [][purge_expired_jobs =>
          \A j \in records :
              IF now - rec[j].updated_at >= job_retention_minutes
              THEN /\ j \notin records'
                   /\ <<"in", j>> \notin files'
                   /\ <<"out", j>> \notin files'
              ELSE /\ j \in records'
                   /\ \A d \in {"in", "out"} :
                          <<d, j>> \in files' <=> <<d, j>> \in files]_vars

\* C15: a job cancelled while processing is not interrupted: once its engine
\* run is over and the worker has stored the outcome, its status is completed
\* when the engine succeeded and failed when it raised, never cancelled.
C15_CancelNotPreemptive ==
    \A j \in ran :
        ~EngineAwaited(j)
            => rec[j].status = (IF eng[j] = "ok" THEN "completed" ELSE "failed")

\* a job that was cancelled during its transcode and then completed
C15_Witness ==
    \E j \in ran : /\ rec[j].status = "completed"
                   /\ term[j] = 2
                   /\ ~EngineAwaited(j)

\* C16: an engine error (probe failure, unknown resolution, non-zero exit of
\* the subprocess) ends the job failed, with an error message and without an
\* output location, and its work item enters processing at most once.
C16_EngineErrorFails ==
    \A j \in JobIds :
        /\ (eng[j] = "err" /\ ~EngineAwaited(j))
               => /\ rec[j].status = "failed"
                  /\ rec[j].error
                  /\ ~rec[j].output_path
        /\ Cardinality({i \in DOMAIN proc : proc[i] = j}) <= 1

\* a job failed by the engine, with the worker back at an empty queue
C16_Witness ==
    \E j \in JobIds :
        /\ eng[j] = "err"
        /\ rec[j].status = "failed"
        /\ queue = <<>>
        /\ \E w \in Workers : wpc[w] = "get" /\ cur[w] = 0

\* the probed video stream, once the resolution is known
Video == info.video[1]
\* the source codec by its ffprobe name, whatever the case of the letters
SourceFamily(name) ==
    IF name \in {<<"h", "2", "6", "4">>, <<"a", "v", "c", "1">>} THEN "h264"
    ELSE IF name = <<"H", "E", "V", "C">> THEN "h265"
    ELSE "none"
\* the MP4-family format names among Containers
Mp4Family == {<<"m", "o", "v", ",", "m", "p", "4">>, <<"M", "P", "4">>}
\* _process_sync is past its profile, codec, remux decision
ProfileChosen == sel \in {"profile", "codec", "remux", "transcode"}
CodecResolved == sel \in {"codec", "remux", "transcode"}
RemuxDecided == sel \in {"remux", "transcode"}

\* the profile of greatest height among those whose height or width does not
\* exceed the source's, the smallest profile when there is none
ExpectedProfile(w, h, q) ==
    IF q # "auto" THEN q
    ELSE LET cand == {i \in DOMAIN PROFILES :
                          PROFILES[i].height <= h \/ PROFILES[i].width <= w}
         IN IF cand = {} THEN "sd_480p"
            ELSE PROFILES[CHOOSE i \in cand : \A k \in cand :
                              PROFILES[k].height <= PROFILES[i].height].name

C18_RemuxIff ==
    RemuxDecided
        => /\ remux <=> /\ SourceFamily(Video.codec_name) = target_codec
                        /\ info.container \in Mp4Family
                        /\ Video.width <= ProfileOf(profile).width
                        /\ Video.height <= ProfileOf(profile).height
           /\ (sel = "remux") <=> remux

\* an avc1 stream in a mov,mp4 container within the profile is remuxed
C18_Witness ==
    /\ sel = "remux"
    /\ remux
    /\ info.container = <<"m", "o", "v", ",", "m", "p", "4">>
    /\ Video.codec_name = <<"a", "v", "c", "1">>
    /\ request.codec = "auto"

\* C19: with an explicit quality whose profile is larger than the source, the
\* remux decision is false and the job is transcoded.
C19_UpscaleTranscodes ==
    (/\ RemuxDecided
     /\ request.quality # "auto"
     /\ ProfileOf(request.quality).width > Video.width
     /\ ProfileOf(request.quality).height > Video.height)
        => ~remux /\ sel = "transcode"

\* explicit request codec, else the source codec when h264 or h265, else the
\* profile's default, else h264
ExpectedCodec ==
    IF request.codec # "auto" THEN request.codec
    ELSE IF SourceFamily(Video.codec_name) # "none"
         THEN SourceFamily(Video.codec_name)
    ELSE IF ProfileOf(profile).codec # "auto" THEN ProfileOf(profile).codec
    ELSE "h264"

\* a 3840x2160 h264 source requested with quality auto and codec auto
Source4kH264 ==
    /\ Video.width = 3840 /\ Video.height = 2160
    /\ Video.codec_name = <<"h", "2", "6", "4">>
    /\ request = [quality |-> "auto", codec |-> "auto"]

\* C20: the target codec follows the precedence request codec, source codec
\* (h264 or h265), profile default, h264, and is never auto; a 4K h264 source
\* with quality auto and codec auto gets the UHD profile with target h264.
C20_CodecPrecedence ==
    CodecResolved
        => /\ target_codec = ExpectedCodec
           /\ target_codec \in {"h264", "h265"}
           /\ Source4kH264 => profile = "uhd_2160p" /\ target_codec = "h264"

\* the codec of the 4K h264 source has just been resolved
C20_Witness ==
    /\ sel = "codec"
    /\ Source4kH264
    /\ profile = "uhd_2160p"
    /\ target_codec = "h264"

\* both loops have ended, or were never created
LoopsTerminated ==
    /\ \A w \in Workers : wpc[w] \in {"none", "done", "cancelled"}
    /\ mpc \in {"none", "done", "cancelled"}

\* C14: stop() returns only when the worker loop and the maintenance loop have
\* terminated, whatever they were doing when it was called, and once it has
\* returned no step takes a work item off the queue or purges a job.
C14_StopTerminatesLoops ==
    [][/\ stops' > 0 => LoopsTerminated'
       /\ stops > 0 => /\ queue' = queue \/ Len(queue') > Len(queue)
                       /\ records \subseteq records'
                       /\ proc' = proc]_vars

\* stop() has returned after cancelling the worker inside a callback dispatch
\* and the maintenance loop in its sleep; a work item is still queued
C14_Witness ==
    /\ stops = 1
    /\ spc = "idle"
    /\ mpc = "cancelled"
    /\ \E w \in Workers : wpc[w] = "cancelled" /\ dret[w].how = "running"
    /\ queue # <<>>

\* the step is taken by a worker task
WorkerStep ==
    \E w \in Workers :
        \/ WorkerGet(w) \/ WorkerComplete(w) \/ WorkerFail(w)
        \/ DispatchSleep(w) \/ \E o \in PostOutcomes : DispatchPost(w, o)

\* C23: every mutation of a job record is a step of the worker task: no
\* request handler and no executor thread writes a record.
C23_WorkerOnlyWrites ==
    [][\A j \in JobIds :
          (rec[j].status # "absent" /\ rec'[j] # rec[j]) => WorkerStep]_vars

\* C26: a dispatch waits only between two attempts: it sleeps after a failed
\* attempt only when another attempt follows, so N failed attempts incur N-1
\* waits.
C26_WaitsBetweenAttempts ==
    \A w \in Workers : wpc[w] = "sleep" => attempt[w] < callback_max_attempts

\* C28: every step that changes a field of a job record sets its updated_at
\* to the current time.
C28_UpdatedAtRefreshed ==
    [][\A j \in JobIds :
          (rec[j].status # "absent" /\ rec'[j] # rec[j])
              => rec'[j].updated_at = now]_vars

\* C21: for every stored record, at every moment, the progress fraction of
\* its JobDetail is null or lies between 0 and 1, whatever processed time
\* the subprocess reported.
C21_ProgressInUnit ==
    \A j \in records :
        LET p == to_detail(rec[j]).transcode_progress
        IN IF p = <<>> THEN TRUE
           ELSE p[1].den > 0 /\ 0 <= p[1].num /\ p[1].num <= p[1].den

\* C22: the ETA of a record's JobDetail is null when the duration is unknown,
\* when the processed time is zero and when the transcode end timestamp is
\* set; a non-null ETA belongs to a job whose transcode has started and not
\* ended, with processed time and elapsed time both positive (a positive
\* observed speed).
C22_EtaNullity ==
    \A j \in records :
        LET r == rec[j]
            eta == to_detail(r).transcode_eta_seconds
        IN /\ (\/ r.media_duration_seconds = None
               \/ r.transcode_media_seconds = 0
               \/ r.transcode_finished_at # None) => eta = <<>>
           /\ eta # <<>> =>
                  /\ r.transcode_started_at # None
                  /\ r.transcode_finished_at = None
                  /\ r.transcode_media_seconds > 0
                  /\ now > r.transcode_started_at

\* get_job returned an ETA for a job in the middle of its transcode
C22_Witness ==
    /\ detail.transcode_eta_seconds # <<>>
    /\ eng[1] = "ffmpeg"

\* C24: a file is at a job's output location only when the engine run ended
\* well and the whole file is there; after a failed run nothing is at the
\* output location, and a partly written file is never there.
C24_OutputOnlyComplete ==
    \A j \in JobIds :
        /\ <<"partial", j>> \notin files
        /\ <<"out", j>> \in files => eng[j] = "ok"
        /\ eng[j] = "err" => <<"out", j>> \notin files

\* C25: on the hardware branch the device-accelerated candidate, when there
\* is one, runs first and the software format candidate last; after a
\* candidate's success no further candidate is taken; between a failed
\* candidate and the next the work output is gone; when all have failed the
\* error raised is that of the last candidate.
C25_FallbackChain ==
    path = "rkmpp" =>
        /\ eng[1] = "ffmpeg" =>
               \/ cands = <<"rkrga", "format">> /\ last_error = "none"
               \/ cands = <<"format">> /\ last_error \in {"none", "rkrga"}
        /\ eng[1] = "retry" =>
               /\ <<"work", 1>> \notin files
               /\ last_error = Head(cands)
        /\ eng[1] \in {"move", "copy", "ok"} => cands # <<>>
        /\ (eng[1] = "err" /\ raised # "move") =>
               /\ cands = <<>>
               /\ raised = "format"
               /\ <<"work", 1>> \notin files

\* the second candidate succeeded after the first had failed
C25_Witness ==
    /\ path = "rkmpp"
    /\ eng[1] = "ok"
    /\ cands = <<"format">>
    /\ last_error = "rkrga"

\* C27: the processed media seconds of a record never decrease, the retries
\* of the hardware fallback chain included.
C27_ProcessedMonotone ==
    [][\A j \in JobIds :
          (rec[j].transcode_media_seconds # None /\ rec'[j].status # "absent")
              => rec'[j].transcode_media_seconds
                     >= rec[j].transcode_media_seconds]_vars

\* C29: once the transcode path is chosen, the hardware encoder is used
\* exactly when the encoder of the target codec is in the cached encoder
\* list, and the software encoder otherwise; a hardware decoder is in the
\* command only when the decoder of the source codec is in the cached decoder
\* list and the host has the acceleration device; a missing decoder does not
\* keep the hardware encoder from being used.
C29_PathByCapabilities ==
    sel \in {"rkmpp", "cpu"} =>
        /\ (sel = "rkmpp") <=>
               (_rkmpp_encoder_name(target_codec) \in ffmpeg_encoders)
        /\ sel = "rkmpp" => encoder_name = _rkmpp_encoder_name(target_codec)
        /\ (sel = "rkmpp" /\ decoder_name # "") =>
               /\ decoder_name \in ffmpeg_decoders
               /\ decoder_name = _rkmpp_decoder_name(info.video[1].codec_name)
               /\ hw_device

\* C30: in a manager that is not stopped, with engine runs and dispatches
\* that end and a worker that is scheduled, every job whose work item was
\* put on the queue gets a terminal status, and a queue that holds items
\* becomes empty.
C30_EnqueuedJobsFinish ==
    /\ \A j \in JobIds :
           (j \in Range(enq)) ~> (rec[j].status \in Terminal)
    /\ (queue # <<>>) ~> (queue = <<>>)

\* two jobs were enqueued, one of them run by the engine, both are terminal
\* and the queue is empty
C30_Witness ==
    /\ Len(enq) >= 2
    /\ proc # <<>>
    /\ queue = <<>>
    /\ \A j \in Range(enq) : rec[j].status \in Terminal

C32_CallbackInline ==
    [][/\ Len(queue') < Len(queue) => \A w \in Workers : ~Dispatching(w)
       /\ \A j \in JobIds :
              (rec[j].status # "processing" /\ rec'[j].status = "processing")
                  => /\ \A w \in Workers : ~Dispatching(w)
                     /\ \A i \in 1..Len(proc) :
                            rec[proc[i]].callback_url
                                => /\ disp[proc[i]] >= 1
                                   /\ \A w \in Workers :
                                          dret'[w].how # "running"]_vars

\* the second job is being processed after the dispatch for the first one
\* used up its attempts and returned
C32_Witness ==
    /\ Len(proc) = 2
    /\ rec[proc[1]].callback_url
    /\ disp[proc[1]] = 1
    /\ rec[proc[2]].status = "processing"
    /\ \E w \in Workers : /\ cur[w] = proc[2]
                           /\ dret[w].how = "returned"
                           /\ dret[w].attempts = callback_max_attempts

\* stop() was called while the worker awaited the engine run on job j: j is
\* the last job taken to processing and its transcode has no end timestamp
Interrupted(j) ==
    /\ shutdown
    /\ proc # <<>>
    /\ proc[Len(proc)] = j
    /\ rec[j].transcode_started_at # None
    /\ rec[j].transcode_finished_at = None

\* every work item in the queue stays where it is; items may be added
StaysQueued ==
    /\ Len(queue') >= Len(queue)
    /\ SubSeq(queue', 1, Len(queue)) = queue

====
